---- MODULE Spec2Model ----
(***************************************************************************)
(* State-machine model of the CosyVoice2 OpenAI-compatible TTS server:     *)
(* the CosyVoiceClient wrapper (src/cosyvoice_client.py) and the request   *)
(* handlers that drive it (src/app.py).                                    *)
(*                                                                         *)
(* Threads.  The request handlers are coroutines of one asyncio event      *)
(* loop, i.e. one thread: code between two awaits runs without any other   *)
(* handler running.  loopOwner names the streaming request whose           *)
(* synchronous generator _synthesize_stream is executing (or blocked in    *)
(* model_lock.acquire) on that thread; 0 means the loop is free to run     *)
(* another handler.  Batch synthesis and clone_voice run their closures    *)
(* on threads of the ThreadPoolExecutor and interleave with everything.    *)
(***************************************************************************)
EXTENDS Naturals, Integers, Sequences, FiniteSets, TLC

(* ---------------------------------------------------------------- bounds *)
NReq == 2        \* synthesis requests that may be issued concurrently with clones
MaxSeg == 2      \* raw audio segments the engine emits for one text, at most
NCg == 2         \* clone_generate calls that may be issued
concurrent_requests == 1     \* configured pool size (CONCURRENT_REQUESTS), kept small
max_text_length == 2         \* configured MAX_TEXT_LENGTH, kept small

MaxReq == NReq + 1         \* request ids; the last one is issued only where three compete
Reqs == 1..MaxReq
NoReq == 0

Kinds == {"batch", "stream"}
Formats == {"wav", "mp3"}
ResponseFormats == {"mp3", "wav", "flac", "aac"}    \* every response_format the API accepts
SynthVoices == {"v1", "c1"}      \* voice ids a synthesis request may name
CloneNames == {"c1"}             \* speaker_name values given to clone_voice
NormalSpeed == 10                \* speed 1.0; speeds are counted in tenths
Speeds == {5, NormalSpeed, 20}   \* speed values a request may carry (0.5, 1.0, 2.0)
TextLens == {1, max_text_length + 1}    \* len(input): within the maximum, beyond it
PlainTexts == {1}                \* a text within the maximum
PlainSpeeds == {NormalSpeed}     \* the default speed

VARIABLES
    model,            \* self.model is not None
    startup,          \* lifespan: "pending", "complete" (serving) or "failed"
    deleted,          \* the last delete_voice call: its argument and return value
    model_lock,       \* holder of self.model_lock (a request id), 0 when free
    custom_speakers,  \* keys of self.custom_speakers
    voice_mapping,    \* self.voice_mapping: voice id -> speaker label
    spk2info,         \* self.spk2info: speaker label -> shape of the stored value
    engine_spk,       \* zero-shot speakers registered inside the engine
    req,              \* per request: its inputs
    pc,               \* per request: position in its handler / closure
    use_zero_shot,    \* per request: local use_zero_shot of the running closure
    path,             \* per request: synthesis path the running closure took
    segs,             \* per request: raw audio segments obtained from the engine
    out,              \* per request: encoded chunks delivered to the caller
    err,              \* per request: failure raised to the caller ("none" if none)
    loopOwner,        \* request whose generator occupies the event-loop thread
    executor_queue,   \* work items submitted to self.executor and not yet started
    clonePc,          \* position of the clone_voice call in flight
    cloneName,        \* speaker_name of the clone_voice call in flight
    files,            \* sample wav files in default_spk_voice_path (by stem)
    manifest,         \* config.json "wav_files": filename -> entry
    bundles,          \* spk2info bundle files present under model_path
    cg,               \* per clone_generate call: position, inputs, locals, result
    processed_text,   \* per request: len(processed_text) handed to the engine, 0 before
    post,             \* per request: what resampling and the encoder did in the last
                      \* post-processing of a segment
    tmp_files,        \* temporary files of _convert_audio_format still on disk
    waiting           \* requests blocked in model_lock.acquire(), oldest first

vars == <<model, startup, deleted, model_lock, custom_speakers, voice_mapping, spk2info, engine_spk,
          req, pc, use_zero_shot, path, segs, out, err, loopOwner, executor_queue,
          clonePc, cloneName, files, manifest, bundles, cg,
          processed_text, post, tmp_files, waiting>>

synthVars == <<req, pc, use_zero_shot, path, segs, out, err>>
registryVars == <<custom_speakers, voice_mapping, spk2info, engine_spk>>
durableVars == <<files, manifest, bundles>>
cloneVars == <<clonePc, cloneName>>
postVars == <<processed_text, post, tmp_files>>

(* ------------------------------------------------------------ name spaces *)
FileName(id) == id \o ".wav"                 \* f"{speaker_name_id}.wav"
BundlePath(id) == id \o "_spk2info.pt"       \* f"{speaker_name_id}_spk2info.pt"

CloneIds == {"v1", "v2", "v1.wav"}           \* speaker_name_id values given to clone_generate
Speakers == {"S1", "S2"}                     \* speaker labels
InitialStems == {"v1", "a", "b"}             \* wav files the voices directory may hold at start
StemUniverse == CloneIds \cup SynthVoices \cup InitialStems
FileUniverse == {FileName(i) : i \in StemUniverse}
NoSpeaker == "none"
NoEntry == [id |-> "none", speaker |-> NoSpeaker, spk2info_path |-> "none"]
Entry(id, speaker) == [id |-> id, speaker |-> speaker, spk2info_path |-> BundlePath(id)]

NoRequest == [kind |-> "none", voice |-> "none", fmt |-> "none", len |-> 0, speed |-> NormalSpeed]
NoPost == [resample |-> "none", encoder |-> "none"]
NoDelete == [voice |-> "none", result |-> FALSE]

(* ------------------------------------------------- startup: _load_model *)
\* One iteration of the loop over json_file_configs: the bundle is loaded when
\* its file exists (torch.load gives the whole saved dict, keyed by speaker
\* label: shape "nested"), otherwise the triple is extracted and stored flat
\* under the speaker label ('embedding', 'speech_feat', 'speech_token': shape
\* "flat") and the bundle file is written.  A wav file without a manifest entry
\* has no "spk2info_path": KeyError, which ends the whole load.
LoadOne(st, id) ==
    LET e == manifest[FileName(id)]
        sp == e.speaker
        hit == e.spk2info_path \in st.bundles
        s1 == IF hit THEN [st.s2i EXCEPT ![sp] = "nested"]
                     ELSE [st.s2i EXCEPT ![sp] = "absent"]
        miss == s1[sp] = "absent"
    IN  IF e = NoEntry
        THEN [st EXCEPT !.failed = TRUE]
        ELSE [vm |-> [st.vm EXCEPT ![id] = sp],
              s2i |-> IF miss THEN [s1 EXCEPT ![sp] = "flat"] ELSE s1,
              bundles |-> IF miss THEN st.bundles \cup {e.spk2info_path} ELSE st.bundles,
              extractions |-> st.extractions + (IF miss THEN 1 ELSE 0),
              failed |-> FALSE]

RECURSIVE LoadFrom(_, _)
LoadFrom(st, todo) ==
    IF todo = {} \/ st.failed
    THEN st
    ELSE LET id == CHOOSE i \in todo : TRUE
         IN  LoadFrom(LoadOne(st, id), todo \ {id})

\* load(): every *.wav of the voices directory, against the stores as they are.
LoadAll ==
    LoadFrom([vm |-> voice_mapping, s2i |-> spk2info, bundles |-> bundles,
              extractions |-> 0, failed |-> FALSE], files)

\* load() as a new process runs it on the stores as they are now: nothing in
\* memory yet.
Reload ==
    LoadFrom([vm |-> [v \in StemUniverse |-> NoSpeaker],
              s2i |-> [sp \in Speakers |-> "absent"],
              bundles |-> bundles, extractions |-> 0, failed |-> FALSE], files)

\* list_available_voices: every key of voice_mapping as "preset", every key of
\* custom_speakers as "custom".
list_available_voices ==
    {[id |-> v, type |-> "preset"] : v \in {u \in StemUniverse : voice_mapping[u] # NoSpeaker}}
    \cup {[id |-> n, type |-> "custom"] : n \in custom_speakers}

(* ------------------------------------------------------------------- Init *)
\* Voices directory at process start: empty; one sample v1.wav with its
\* manifest entry, its bundle computed by an earlier run or not; one sample
\* a.wav whose manifest entry carries the id v1; or v1.wav next to a sample
\* b.wav that config.json does not list.
InitialStores ==
    {[files |-> {}, bundles |-> {}],
     [files |-> {"v1"}, bundles |-> {}],
     [files |-> {"v1"}, bundles |-> {BundlePath("v1")}],
     [files |-> {"a"}, bundles |-> {}],
     [files |-> {"v1", "b"}, bundles |-> {BundlePath("v1")}]}

\* config.json "wav_files" of an initial store, keyed by file name.
InitialManifest(st) ==
    [f \in FileUniverse |->
        IF f = FileName("v1") /\ "v1" \in st.files THEN Entry("v1", "S1")
        ELSE IF f = FileName("a") /\ "a" \in st.files THEN Entry("v1", "S1")
        ELSE NoEntry]

EmptyManifest == [f \in FileUniverse |-> NoEntry]
NoStores == [files |-> {}, manifest |-> EmptyManifest, bundles |-> {}]
NoCall == [pc |-> "idle", id |-> "none", speaker |-> NoSpeaker, status |-> 0,
           config |-> EmptyManifest, before |-> NoStores]
CgCalls == 1..NCg

Init ==
    /\ model = FALSE
    /\ startup = "pending"
    /\ deleted = NoDelete
    /\ model_lock = NoReq
    /\ custom_speakers = {}
    /\ voice_mapping = [v \in StemUniverse |-> NoSpeaker]
    /\ spk2info = [sp \in Speakers |-> "absent"]
    /\ engine_spk = {}
    /\ req = [r \in Reqs |-> NoRequest]
    /\ pc = [r \in Reqs |-> "idle"]
    /\ use_zero_shot = [r \in Reqs |-> FALSE]
    /\ path = [r \in Reqs |-> "none"]
    /\ segs = [r \in Reqs |-> 0]
    /\ out = [r \in Reqs |-> <<>>]
    /\ err = [r \in Reqs |-> "none"]
    /\ loopOwner = NoReq
    /\ executor_queue = <<>>
    /\ clonePc = "idle"
    /\ cloneName = "none"
    /\ \E st \in InitialStores :
          /\ files = st.files
          /\ bundles = st.bundles
          /\ manifest = InitialManifest(st)
    /\ cg = [c \in CgCalls |-> NoCall]
    /\ processed_text = [r \in Reqs |-> 0]
    /\ post = [r \in Reqs |-> NoPost]
    /\ tmp_files = {}
    /\ waiting = <<>>

\* CosyVoiceClient.initialize, awaited by the lifespan: the model is
\* constructed, then the voices are loaded.  An exception raised in the loop
\* leaves load(), _load_model and initialize, and the lifespan re-raises it:
\* the application does not start.
initialize ==
    /\ ~model
    /\ startup = "pending"
    /\ loopOwner = NoReq
    /\ LET st == LoadAll
       IN  /\ model' = TRUE
           /\ voice_mapping' = st.vm
           /\ spk2info' = st.s2i
           /\ bundles' = st.bundles
           /\ startup' = IF st.failed THEN "failed" ELSE "complete"
    /\ UNCHANGED <<postVars, waiting, deleted, model_lock, custom_speakers, engine_spk, synthVars, loopOwner,
                   executor_queue, cloneVars, files, manifest, cg>>

(* ------------------------------------------------------ threads and pool *)
\* synthesize hands _synthesize to the executor (run_in_executor); the body of
\* synthesize_stream iterates _synthesize_stream() itself, in the coroutine.
RunsOn(r) == IF req[r].kind = "batch" THEN "worker" ELSE "loop"

CanRun(r) == RunsOn(r) = "worker" \/ loopOwner = r

InClosure == {"acquire", "resolve", "select", "lookup", "gateway", "encode"}

\* Pool threads running a work item.
BusyWorkers ==
    Cardinality({r \in Reqs : RunsOn(r) = "worker" /\ pc[r] \in InClosure})
    + (IF clonePc \in {"running", "registered"} THEN 1 ELSE 0)

CloneTask == MaxReq + 1      \* the work item of clone_voice in executor_queue

\* ThreadPoolExecutor(max_workers=config.concurrent_requests): an item starts
\* at once while a thread is free, and waits in the FIFO work queue otherwise.
StartsAtOnce == executor_queue = <<>> /\ BusyWorkers < concurrent_requests

\* Positions inside "with self.model_lock:" (a generator suspended at its yield,
\* consumed or abandoned, is still inside the with block).
InsideLock == {"resolve", "select", "lookup", "gateway", "encode", "suspended", "abandoned"}

\* The closure / generator is left: its locals are gone.
Leave(r) ==
    /\ use_zero_shot' = [use_zero_shot EXCEPT ![r] = FALSE]
    /\ path' = [path EXCEPT ![r] = "none"]

\* An exception leaving the closure / generator: the with block releases the
\* lock, the exception reaches the caller.
Fail(r, e) ==
    /\ pc' = [pc EXCEPT ![r] = "failed"]
    /\ err' = [err EXCEPT ![r] = e]
    /\ model_lock' = IF model_lock = r THEN NoReq ELSE model_lock
    /\ loopOwner' = IF loopOwner = r THEN NoReq ELSE loopOwner
    /\ Leave(r)

(* --------------------------------------------------- audio post-processing *)
\* _convert_audio_format: what the external encoder (mp3 only) may do.
EncOutcomes(fmt) == IF fmt = "mp3" THEN {"ok", "ffmpeg_failed", "raise"} ELSE {"ok"}

\* Mutation of Converted: no fallback, the mp3 buffer is returned as it is
\* after a failed conversion (empty).
ConvertedWithoutFallback(audio, fmt, outcome) ==
    [enc |-> IF fmt = "mp3" THEN "mp3" ELSE IF fmt = "flac" THEN "flac" ELSE "wav",
     audio |-> IF fmt = "mp3" /\ outcome # "ok" THEN <<>> ELSE audio]

\* _convert_audio_format: the bytes returned, as (actual container, audio).
Converted(audio, fmt, outcome) ==
    [enc |-> IF fmt = "mp3" /\ outcome = "ok" THEN "mp3"
             ELSE IF fmt = "flac" THEN "flac" ELSE "wav",
     audio |-> audio]

\* A tensor that went through the two resamplers at the given speed.
Resampled(x, speed) == x + 100 * speed

\* _adjust_speed: what the resamplers may do.
ResampleOutcomes == {"ok", "raise"}

\* Mutation of adjust_speed: what the resamplers had produced is returned also
\* when resampling raised.
adjust_speed_keeps_partial(audio, speed, outcome) ==
    IF speed = NormalSpeed THEN audio
    ELSE [i \in DOMAIN audio |-> Resampled(audio[i], speed)]

\* _adjust_speed: the input itself at speed 1.0 and when resampling raises
\* (the assignment to audio_tensor did not happen), the resampled tensor
\* otherwise.
adjust_speed(audio, speed, outcome) ==
    IF speed = NormalSpeed THEN audio
    ELSE IF outcome = "raise" THEN audio
    ELSE [i \in DOMAIN audio |-> Resampled(audio[i], speed)]

\* "if speed != 1.0: audio_tensor = self._adjust_speed(audio_tensor, speed)",
\* then _convert_audio_format(audio_tensor, response_format).
PostProcessed(audio, fmt, speed, a, o) ==
    Converted(IF speed # NormalSpeed THEN adjust_speed(audio, speed, a) ELSE audio, fmt, o)

\* What one post-processing may meet: resampling is not entered at speed 1.0.
PostOutcomes(fmt, speed) ==
    {[resample |-> a, encoder |-> o] :
        a \in (IF speed = NormalSpeed THEN {"skipped"} ELSE ResampleOutcomes),
        o \in EncOutcomes(fmt)}

\* _convert_audio_format, mp3 branch: the NamedTemporaryFile(delete=False) and
\* the encoder's output file that the call leaves on disk.  os.unlink(tmp_wav)
\* is the last statement of the branch and os.unlink(mp3_path) belongs to the
\* returncode == 0 branch: an exception raised before them skips both.
Leftover(fmt, outcome) ==
    IF fmt = "mp3" /\ outcome = "raise" THEN {"tmp.wav"} ELSE {}

\* audio_data of a batch call: the raw segments collected by list(...), in
\* the order the engine produced them.
AudioData(r) == [i \in 1..segs[r] |-> i]

\* audio_tensor = audio_data[0]['tts_speech']
BatchAudio(audio_data) == <<audio_data[1]>>

\* audio_tensor, the audio a post-processing step of request r is given:
\* audio_data[0] of a batch call, the chunk just received of a streaming call.
audio_tensor(r) == IF req[r].kind = "batch" THEN BatchAudio(AudioData(r)) ELSE <<segs[r]>>

(* ------------------------------------------------------ synthesis requests *)
\* Mutation of create_speech: the closure is submitted without looking at
\* self.model.
create_speech_unchecked(r, v, f, n, sp) ==
    /\ pc[r] = "idle"
    /\ loopOwner = NoReq
    /\ req' = [req EXCEPT ![r] = [kind |-> "batch", voice |-> v, fmt |-> f,
                                   len |-> n, speed |-> sp]]
    /\ err' = err
    /\ IF StartsAtOnce
       THEN /\ pc' = [pc EXCEPT ![r] = "acquire"]
            /\ executor_queue' = executor_queue
       ELSE /\ pc' = [pc EXCEPT ![r] = "queued"]
            /\ executor_queue' = Append(executor_queue, r)
    /\ UNCHANGED <<postVars, model, waiting, startup, deleted, model_lock, registryVars, use_zero_shot, path, segs, out,
                   loopOwner, cloneVars, durableVars, cg>>

\* POST /v1/audio/speech -> CosyVoiceClient.synthesize up to run_in_executor.
\* The handler compares len(request.input) with config.max_text_length first
\* and raises HTTPException(400) inside its try block; synthesize is not called.
create_speech(r, v, f, n, sp) ==
    /\ pc[r] = "idle"
    /\ loopOwner = NoReq
    /\ req' = [req EXCEPT ![r] = [kind |-> "batch", voice |-> v, fmt |-> f,
                                   len |-> n, speed |-> sp]]
    /\ IF n > max_text_length
       THEN /\ pc' = [pc EXCEPT ![r] = "failed"]
            /\ err' = [err EXCEPT ![r] = "InputTooLong"]
            /\ executor_queue' = executor_queue
       ELSE IF ~model
       THEN /\ pc' = [pc EXCEPT ![r] = "failed"]
            /\ err' = [err EXCEPT ![r] = "ModelNotReady"]
            /\ executor_queue' = executor_queue
       ELSE /\ err' = err
            /\ IF StartsAtOnce
               THEN /\ pc' = [pc EXCEPT ![r] = "acquire"]
                    /\ executor_queue' = executor_queue
               ELSE /\ pc' = [pc EXCEPT ![r] = "queued"]
                    /\ executor_queue' = Append(executor_queue, r)
    /\ UNCHANGED <<postVars, model, waiting, startup, deleted, model_lock, registryVars, use_zero_shot, path, segs, out,
                   loopOwner, cloneVars, durableVars, cg>>

\* POST /v1/audio/stream: the StreamingResponse is built, nothing runs yet.
create_speech_stream(r, v, f, n, sp) ==
    /\ pc[r] = "idle"
    /\ loopOwner = NoReq
    /\ req' = [req EXCEPT ![r] = [kind |-> "stream", voice |-> v, fmt |-> f,
                                   len |-> n, speed |-> sp]]
    /\ pc' = [pc EXCEPT ![r] = "pending"]
    /\ UNCHANGED <<postVars, model, waiting, startup, deleted, model_lock, registryVars, use_zero_shot, path, segs, out, err,
                   loopOwner, executor_queue, cloneVars, durableVars, cg>>

\* First pull of the response body: synthesize_stream checks the model and
\* starts iterating _synthesize_stream() on the event-loop thread.
synthesize_stream(r) ==
    /\ pc[r] = "pending"
    /\ loopOwner = NoReq
    /\ IF model
       THEN /\ pc' = [pc EXCEPT ![r] = "acquire"]
            /\ loopOwner' = r
            /\ err' = err
       ELSE /\ pc' = [pc EXCEPT ![r] = "failed"]
            /\ loopOwner' = loopOwner
            /\ err' = [err EXCEPT ![r] = "ModelNotReady"]
    /\ UNCHANGED <<postVars, model, waiting, startup, deleted, model_lock, registryVars, req, use_zero_shot, path, segs, out,
                   executor_queue, cloneVars, durableVars, cg>>

\* A pool thread becomes free and takes the oldest queued work item.
StartWorker ==
    /\ executor_queue # <<>>
    /\ BusyWorkers < concurrent_requests
    /\ executor_queue' = Tail(executor_queue)
    /\ IF Head(executor_queue) = CloneTask
       THEN /\ clonePc' = "running"
            /\ pc' = pc
       ELSE /\ pc' = [pc EXCEPT ![Head(executor_queue)] = "acquire"]
            /\ clonePc' = clonePc
    /\ UNCHANGED <<postVars, model, waiting, startup, deleted, model_lock, registryVars, req, use_zero_shot, path, segs, out,
                   err, loopOwner, cloneName, durableVars, cg>>

\* The sequence without r.
Without(seq, r) == SelectSeq(seq, LAMBDA x : x # r)

\* model_lock.acquire() finds the lock held: the thread blocks in the call.
AcquireBlocks(r) ==
    /\ pc[r] = "acquire"
    /\ CanRun(r)
    /\ model_lock # NoReq
    /\ \A i \in DOMAIN waiting : waiting[i] # r
    /\ waiting' = Append(waiting, r)
    /\ UNCHANGED <<postVars, model, startup, deleted, model_lock, registryVars, synthVars,
                   loopOwner, executor_queue, cloneVars, durableVars, cg>>

\* Mutation of AcquireLock: the closure enters without waiting for the lock
\* to be free.
AcquireLockNoWait(r) ==
    /\ pc[r] = "acquire"
    /\ CanRun(r)
    /\ model_lock' = r
    /\ waiting' = Without(waiting, r)
    /\ pc' = [pc EXCEPT ![r] = "resolve"]
    /\ UNCHANGED <<postVars, model, startup, deleted, registryVars, req, use_zero_shot, path, segs, out, err,
                   loopOwner, executor_queue, cloneVars, durableVars, cg>>

\* with self.model_lock: a blocking acquire of the threading.Lock.  A released
\* threading.Lock goes to whichever thread gets it, one that was blocked in
\* acquire() or one that calls it just now: the lock keeps no order.
AcquireLock(r) ==
    /\ pc[r] = "acquire"
    /\ CanRun(r)
    /\ model_lock = NoReq
    /\ model_lock' = r
    /\ waiting' = Without(waiting, r)
    /\ pc' = [pc EXCEPT ![r] = "resolve"]
    /\ UNCHANGED <<postVars, model, startup, deleted, registryVars, req, use_zero_shot, path, segs, out, err,
                   loopOwner, executor_queue, cloneVars, durableVars, cg>>

\* Mutation of preprocess_text: the text is passed on at its full length.
preprocess_text_uncut(n) == n

\* _preprocess_text on lengths: the text is cut to its first max_text_length
\* characters when it is longer.
preprocess_text(n) == IF n > max_text_length THEN max_text_length ELSE n

\* if voice in self.custom_speakers: ... use_zero_shot = True / False, then
\* processed_text = self._preprocess_text(text)
Resolve(r) ==
    /\ pc[r] = "resolve"
    /\ CanRun(r)
    /\ use_zero_shot' = [use_zero_shot EXCEPT ![r] = (req[r].voice \in custom_speakers)]
    /\ processed_text' = [processed_text EXCEPT ![r] = preprocess_text(req[r].len)]
    /\ pc' = [pc EXCEPT ![r] = "select"]
    /\ UNCHANGED <<post, tmp_files, model, waiting, startup, deleted, model_lock, registryVars, req, path, segs, out, err,
                   loopOwner, executor_queue, cloneVars, durableVars, cg>>

\* if use_zero_shot and voice in self.custom_speakers: zero-shot, else tts_sft
Select(r) ==
    /\ pc[r] = "select"
    /\ CanRun(r)
    /\ path' = [path EXCEPT ![r] =
                  IF use_zero_shot[r] /\ req[r].voice \in custom_speakers
                  THEN "zero_shot" ELSE "sft"]
    /\ pc' = [pc EXCEPT ![r] = "lookup"]
    /\ UNCHANGED <<postVars, model, waiting, startup, deleted, model_lock, registryVars, req, use_zero_shot, segs, out, err,
                   loopOwner, executor_queue, cloneVars, durableVars, cg>>

\* The speaker the chosen path needs: tts_sft reads voice_prompt_mapping[voice],
\* voice_mapping[voice] and spk2info[speaker][speaker] (KeyError otherwise);
\* the engine's zero-shot path reads its own speaker table.
Resolvable(r) ==
    IF path[r] = "zero_shot"
    THEN req[r].voice \in engine_spk
    ELSE /\ voice_mapping[req[r].voice] # NoSpeaker
         /\ spk2info[voice_mapping[req[r].voice]] = "nested"

\* Mutation of Lookup: a voice that does not resolve falls back to a default
\* speaker and synthesis goes on.
LookupFallsBack(r) ==
    /\ pc[r] = "lookup"
    /\ CanRun(r)
    /\ pc' = [pc EXCEPT ![r] = "gateway"]
    /\ UNCHANGED <<err, model_lock, loopOwner, use_zero_shot, path>>
    /\ UNCHANGED <<postVars, model, waiting, startup, deleted, registryVars, req, segs, out,
                   executor_queue, cloneVars, durableVars, cg>>

Lookup(r) ==
    /\ pc[r] = "lookup"
    /\ CanRun(r)
    /\ IF Resolvable(r)
       THEN /\ pc' = [pc EXCEPT ![r] = "gateway"]
            /\ UNCHANGED <<err, model_lock, loopOwner, use_zero_shot, path>>
       ELSE Fail(r, "KeyError")
    /\ UNCHANGED <<postVars, model, waiting, startup, deleted, registryVars, req, segs, out,
                   executor_queue, cloneVars, durableVars, cg>>

\* The engine yields the next raw audio segment.
GatewayEmit(r) ==
    /\ pc[r] = "gateway"
    /\ CanRun(r)
    /\ segs[r] < MaxSeg
    /\ segs' = [segs EXCEPT ![r] = @ + 1]
    /\ pc' = [pc EXCEPT ![r] = IF req[r].kind = "stream" THEN "encode" ELSE "gateway"]
    /\ UNCHANGED <<postVars, model, waiting, startup, deleted, model_lock, registryVars, req, use_zero_shot, path, out, err,
                   loopOwner, executor_queue, cloneVars, durableVars, cg>>

\* Mutation of GatewayRaise: the failure is recorded but the loop goes on to
\* the next segment.
GatewayRaiseContinues(r) ==
    /\ pc[r] = "gateway"
    /\ CanRun(r)
    /\ segs[r] < MaxSeg
    /\ err' = [err EXCEPT ![r] = "SynthesisFailure"]
    /\ segs' = [segs EXCEPT ![r] = @ + 1]
    /\ UNCHANGED <<postVars, model, waiting, startup, deleted, model_lock, registryVars, req, pc, use_zero_shot, path, out,
                   loopOwner, executor_queue, cloneVars, durableVars, cg>>

\* Mutation of GatewayRaise: a batch call that already holds segments returns
\* what it has.
GatewayRaiseReturnsPartial(r) ==
    /\ pc[r] = "gateway"
    /\ CanRun(r)
    /\ segs[r] < MaxSeg
    /\ IF req[r].kind = "batch" /\ segs[r] > 0
       THEN /\ pc' = [pc EXCEPT ![r] = "done"]
            /\ err' = [err EXCEPT ![r] = "SynthesisFailure"]
            /\ out' = [out EXCEPT ![r] = <<Converted(BatchAudio(AudioData(r)), "wav", "ok")>>]
            /\ model_lock' = NoReq
            /\ loopOwner' = loopOwner
            /\ Leave(r)
       ELSE /\ Fail(r, "SynthesisFailure")
            /\ out' = out
    /\ UNCHANGED <<postVars, model, waiting, startup, deleted, registryVars, req, segs,
                   executor_queue, cloneVars, durableVars, cg>>

\* The engine raises while producing the next segment.
GatewayRaise(r) ==
    /\ pc[r] = "gateway"
    /\ CanRun(r)
    /\ segs[r] < MaxSeg
    /\ Fail(r, "SynthesisFailure")
    /\ UNCHANGED <<postVars, model, waiting, startup, deleted, registryVars, req, segs, out,
                   executor_queue, cloneVars, durableVars, cg>>

\* Mutation of GatewayEnd: a batch call leaves the critical section once the
\* engine's sequence is complete, before post-processing.
GatewayEndReleases(r) ==
    /\ pc[r] = "gateway"
    /\ CanRun(r)
    /\ IF req[r].kind = "stream"
       THEN /\ pc' = [pc EXCEPT ![r] = "done"]
            /\ model_lock' = NoReq
            /\ loopOwner' = NoReq
            /\ err' = err
            /\ Leave(r)
       ELSE IF segs[r] = 0
            THEN Fail(r, "RuntimeError")
            ELSE /\ pc' = [pc EXCEPT ![r] = "encode"]
                 /\ model_lock' = NoReq
                 /\ UNCHANGED <<err, loopOwner, use_zero_shot, path>>
    /\ UNCHANGED <<postVars, model, waiting, startup, deleted, registryVars, req, segs, out,
                   executor_queue, cloneVars, durableVars, cg>>

\* The engine's sequence is exhausted.  Batch: list(...) is complete ("if not
\* audio_data: raise"); stream: the for loop ends and the generator returns.
GatewayEnd(r) ==
    /\ pc[r] = "gateway"
    /\ CanRun(r)
    /\ IF req[r].kind = "stream"
       THEN /\ pc' = [pc EXCEPT ![r] = "done"]
            /\ model_lock' = NoReq
            /\ loopOwner' = NoReq
            /\ err' = err
            /\ Leave(r)
       ELSE IF segs[r] = 0
            THEN Fail(r, "RuntimeError")
            ELSE /\ pc' = [pc EXCEPT ![r] = "encode"]
                 /\ UNCHANGED <<err, model_lock, loopOwner, use_zero_shot, path>>
    /\ UNCHANGED <<postVars, model, waiting, startup, deleted, registryVars, req, segs, out,
                   executor_queue, cloneVars, durableVars, cg>>

\* Batch: audio_data[0] is encoded and returned; the with block is left.
EncodeBatch(r) ==
    /\ pc[r] = "encode"
    /\ req[r].kind = "batch"
    /\ CanRun(r)
    /\ \E po \in PostOutcomes(req[r].fmt, req[r].speed) :
          /\ post' = [post EXCEPT ![r] = po]
          /\ tmp_files' = tmp_files \cup Leftover(req[r].fmt, po.encoder)
          /\ IF po.encoder = "raise"
             THEN /\ Fail(r, "EncodingError")
                  /\ out' = out
             ELSE /\ out' = [out EXCEPT ![r] =
                               <<PostProcessed(BatchAudio(AudioData(r)), req[r].fmt,
                                               req[r].speed, po.resample, po.encoder)>>]
                  /\ pc' = [pc EXCEPT ![r] = "done"]
                  /\ model_lock' = NoReq
                  /\ Leave(r)
                  /\ UNCHANGED <<err, loopOwner>>
    /\ UNCHANGED <<processed_text, model, waiting, startup, deleted, registryVars, req, segs,
                   executor_queue, cloneVars, durableVars, cg>>

\* Mutation of EncodeChunk: the new chunk is delivered ahead of the earlier ones.
EncodeChunkPrepends(r) ==
    /\ pc[r] = "encode"
    /\ req[r].kind = "stream"
    /\ CanRun(r)
    /\ \E po \in PostOutcomes(req[r].fmt, req[r].speed) :
          /\ post' = [post EXCEPT ![r] = po]
          /\ tmp_files' = tmp_files \cup Leftover(req[r].fmt, po.encoder)
          /\ IF po.encoder = "raise"
             THEN /\ Fail(r, "EncodingError")
                  /\ out' = out
             ELSE /\ out' = [out EXCEPT ![r] =
                               <<PostProcessed(<<segs[r]>>, req[r].fmt, req[r].speed,
                                               po.resample, po.encoder)>> \o @]
                  /\ pc' = [pc EXCEPT ![r] = "suspended"]
                  /\ loopOwner' = NoReq
                  /\ UNCHANGED <<err, model_lock, use_zero_shot, path>>
    /\ UNCHANGED <<processed_text, model, waiting, startup, deleted, registryVars, req, segs,
                   executor_queue, cloneVars, durableVars, cg>>

\* Stream: the chunk is encoded and yielded; the generator is suspended inside
\* the with block and the event loop is free again.
EncodeChunk(r) ==
    /\ pc[r] = "encode"
    /\ req[r].kind = "stream"
    /\ CanRun(r)
    /\ \E po \in PostOutcomes(req[r].fmt, req[r].speed) :
          /\ post' = [post EXCEPT ![r] = po]
          /\ tmp_files' = tmp_files \cup Leftover(req[r].fmt, po.encoder)
          /\ IF po.encoder = "raise"
             THEN /\ Fail(r, "EncodingError")
                  /\ out' = out
             ELSE /\ out' = [out EXCEPT ![r] =
                               Append(@, PostProcessed(<<segs[r]>>, req[r].fmt, req[r].speed,
                                                        po.resample, po.encoder))]
                  /\ pc' = [pc EXCEPT ![r] = "suspended"]
                  /\ loopOwner' = NoReq
                  /\ UNCHANGED <<err, model_lock, use_zero_shot, path>>
    /\ UNCHANGED <<processed_text, model, waiting, startup, deleted, registryVars, req, segs,
                   executor_queue, cloneVars, durableVars, cg>>

\* The consumer of the response body asks for the next chunk.
ConsumerNext(r) ==
    /\ pc[r] = "suspended"
    /\ loopOwner = NoReq
    /\ pc' = [pc EXCEPT ![r] = "gateway"]
    /\ loopOwner' = r
    /\ UNCHANGED <<postVars, model, waiting, startup, deleted, model_lock, registryVars, req, use_zero_shot, path, segs, out,
                   err, executor_queue, cloneVars, durableVars, cg>>

\* The consumer stops reading (client disconnect): nothing closes the generator.
ConsumerAbandon(r) ==
    /\ pc[r] = "suspended"
    /\ loopOwner = NoReq
    /\ pc' = [pc EXCEPT ![r] = "abandoned"]
    /\ UNCHANGED <<postVars, model, waiting, startup, deleted, model_lock, registryVars, req, use_zero_shot, path, segs, out,
                   err, loopOwner, executor_queue, cloneVars, durableVars, cg>>

\* The abandoned generator is finalized by the runtime (garbage collection,
\* the loop's async-generator hook): GeneratorExit at the yield leaves the with
\* block.  When this happens is up to the runtime; it needs the event loop.
Finalize(r) ==
    /\ pc[r] = "abandoned"
    /\ loopOwner = NoReq
    /\ pc' = [pc EXCEPT ![r] = "closed"]
    /\ model_lock' = NoReq
    /\ Leave(r)
    /\ UNCHANGED <<postVars, model, waiting, startup, deleted, registryVars, req, segs, out, err,
                   loopOwner, executor_queue, cloneVars, durableVars, cg>>

(* ----------------------------------------------- clone_voice, delete_voice *)
\* POST /v1/voice/clone -> CosyVoiceClient.clone_voice up to run_in_executor.
clone_voice(n) ==
    /\ clonePc = "idle"
    /\ loopOwner = NoReq
    /\ model
    /\ cloneName' = n
    /\ IF StartsAtOnce
       THEN /\ clonePc' = "running"
            /\ executor_queue' = executor_queue
       ELSE /\ clonePc' = "queued"
            /\ executor_queue' = Append(executor_queue, CloneTask)
    /\ UNCHANGED <<postVars, model, waiting, startup, deleted, model_lock, registryVars, synthVars, loopOwner, durableVars, cg>>

\* self.model.add_zero_shot_spk(...): the engine registers the speaker, or the
\* call fails (False, or an exception that _clone_voice turns into False).
CloneEngine ==
    /\ clonePc = "running"
    /\ \/ /\ engine_spk' = engine_spk \cup {cloneName}
          /\ clonePc' = "registered"
          /\ cloneName' = cloneName
       \/ /\ engine_spk' = engine_spk
          /\ clonePc' = "idle"
          /\ cloneName' = "none"
    /\ UNCHANGED <<postVars, model, waiting, startup, deleted, model_lock, custom_speakers, voice_mapping, spk2info,
                   synthVars, loopOwner, executor_queue, durableVars, cg>>

\* self.custom_speakers[speaker_name] = {...}
CloneRegister ==
    /\ clonePc = "registered"
    /\ custom_speakers' = custom_speakers \cup {cloneName}
    /\ clonePc' = "idle"
    /\ cloneName' = "none"
    /\ UNCHANGED <<postVars, model, waiting, startup, deleted, model_lock, voice_mapping, spk2info, engine_spk,
                   synthVars, loopOwner, executor_queue, durableVars, cg>>

\* Mutation of delete_voice: True is returned whether or not the name was found.
delete_voice_always_true(n) ==
    /\ loopOwner = NoReq
    /\ custom_speakers' = custom_speakers \ {n}
    /\ deleted' = [voice |-> n, result |-> TRUE]
    /\ UNCHANGED <<postVars, model, waiting, startup, model_lock, voice_mapping, spk2info, engine_spk,
                   synthVars, loopOwner, executor_queue, cloneVars, durableVars, cg>>

\* DELETE /v1/voice/{speaker_name} -> CosyVoiceClient.delete_voice, a coroutine
\* without awaits: it runs on the event loop in one piece.  Only
\* custom_speakers is looked at; True when the name was there, False otherwise.
delete_voice(n) ==
    /\ loopOwner = NoReq
    /\ IF n \in custom_speakers
       THEN /\ custom_speakers' = custom_speakers \ {n}
            /\ deleted' = [voice |-> n, result |-> TRUE]
       ELSE /\ custom_speakers' = custom_speakers
            /\ deleted' = [voice |-> n, result |-> FALSE]
    /\ UNCHANGED <<postVars, model, waiting, startup, model_lock, voice_mapping, spk2info, engine_spk,
                   synthVars, loopOwner, executor_queue, cloneVars, durableVars, cg>>

(* --------------------------------------------------------- clone_generate *)
Stores == [files |-> files, manifest |-> manifest, bundles |-> bundles]

\* Entry: unique_filename is checked, "if os.path.exists(file_path): 409".
cg_check(c, id, sp) ==
    /\ cg[c].pc = "idle"
    /\ loopOwner = NoReq
    /\ cg' = [cg EXCEPT ![c] =
                [pc |-> IF id \in files THEN "done" ELSE "write",
                 id |-> id, speaker |-> sp,
                 status |-> IF id \in files THEN 409 ELSE 0,
                 config |-> EmptyManifest, before |-> Stores]]
    /\ UNCHANGED <<postVars, model, waiting, startup, deleted, model_lock, registryVars, synthVars, loopOwner, executor_queue,
                   cloneVars, durableVars>>

\* async with aiofiles.open(file_path, 'wb'): the sample is written.
cg_write(c) ==
    /\ cg[c].pc = "write"
    /\ loopOwner = NoReq
    /\ files' = files \cup {cg[c].id}
    /\ cg' = [cg EXCEPT ![c].pc = "config"]
    /\ UNCHANGED <<postVars, model, waiting, startup, deleted, model_lock, registryVars, synthVars, loopOwner, executor_queue,
                   cloneVars, manifest, bundles>>

\* config.json is read, the entry is stored under unique_filename, the file is
\* rewritten; config_data stays in the handler's locals.
cg_config(c) ==
    /\ cg[c].pc = "config"
    /\ loopOwner = NoReq
    /\ LET config_data == [manifest EXCEPT ![FileName(cg[c].id)] =
                              Entry(cg[c].id, cg[c].speaker)]
       IN  /\ manifest' = config_data
           /\ cg' = [cg EXCEPT ![c].pc = "clone", ![c].config = config_data]
    /\ UNCHANGED <<postVars, model, waiting, startup, deleted, model_lock, registryVars, synthVars, loopOwner, executor_queue,
                   cloneVars, files, bundles>>

\* "if speaker_name_id in config_data['wav_files']": the keys are file names.
RollbackFinds(config_data, id) ==
    id \in DOMAIN config_data /\ config_data[id] # NoEntry

\* The manifest after the except branch of clone_generate: the entry found under
\* speaker_name_id is deleted from config_data and config_data is written back;
\* when none is found the file is left as it is.
RolledBack(current, config_data, id) ==
    IF RollbackFinds(config_data, id)
    THEN [config_data EXCEPT ![id] = NoEntry]
    ELSE current

\* await cosyvoice_client.clone_voice_saved() fails (False, or an exception):
\* the sample is removed, the rollback runs, the request ends with status 500.
cg_rollback(c) ==
    /\ cg[c].pc = "clone"
    /\ loopOwner = NoReq
    /\ files' = files \ {cg[c].id}
    /\ manifest' = RolledBack(manifest, cg[c].config, cg[c].id)
    /\ cg' = [cg EXCEPT ![c].pc = "done", ![c].status = 500]
    /\ UNCHANGED <<postVars, model, waiting, startup, deleted, model_lock, registryVars, synthVars, loopOwner, executor_queue,
                   cloneVars, bundles>>

\* await cosyvoice_client.clone_voice_saved() succeeds: the new sample is
\* loaded like a startup entry (bundle computed and persisted, voice registered).
clone_voice_saved(c) ==
    /\ cg[c].pc = "clone"
    /\ loopOwner = NoReq
    /\ model
    /\ LET st == LoadOne([vm |-> voice_mapping, s2i |-> spk2info, bundles |-> bundles,
                          extractions |-> 0, failed |-> FALSE], cg[c].id)
       IN  /\ ~st.failed
           /\ voice_mapping' = st.vm
           /\ spk2info' = st.s2i
           /\ bundles' = st.bundles
    /\ cg' = [cg EXCEPT ![c].pc = "done", ![c].status = 200]
    /\ UNCHANGED <<postVars, model, waiting, startup, deleted, model_lock, custom_speakers, engine_spk, synthVars, loopOwner,
                   executor_queue, cloneVars, files, manifest>>

(* ------------------------------------------------------ request boundary *)
\* The status an exception of the handlers carries by itself: the
\* HTTPException raised for a text beyond the maximum carries 400, the one for
\* an unknown voice on delete 404; any other exception carries none (0).
Raised(e) ==
    IF e = "InputTooLong" THEN 400
    ELSE IF e = "VoiceNotFound" THEN 404
    ELSE 0

\* "except Exception as e: raise HTTPException(status_code=500, ...)": the only
\* except clause of create_speech and of delete_voice.  HTTPException is an
\* Exception, so the status it carried is replaced as well.
ExceptException(status) == 500

\* content_type_map.get(request.response_format, "audio/mpeg"): the media type
\* both synthesis handlers declare, looked up by the requested format.
content_type(fmt) ==
    IF fmt = "mp3" THEN "audio/mpeg"
    ELSE IF fmt = "wav" THEN "audio/wav"
    ELSE IF fmt = "flac" THEN "audio/flac"
    ELSE IF fmt = "aac" THEN "audio/aac"
    ELSE "audio/mpeg"

\* POST /v1/audio/speech: the status of the response to batch request r (0: no
\* response yet).
speech_status(r) ==
    IF pc[r] = "done" THEN 200
    ELSE IF pc[r] = "failed" THEN ExceptException(Raised(err[r]))
    ELSE 0

\* DELETE /v1/voice/{speaker_name}: the status of the response to the last
\* call (0: none yet); "raise HTTPException(404)" when the client returned False.
delete_status ==
    IF deleted.voice = "none" THEN 0
    ELSE IF deleted.result THEN 200
    ELSE ExceptException(Raised("VoiceNotFound"))

\* A voice id that is registered: a key of voice_mapping or of custom_speakers.
Registered(v) == voice_mapping[v] # NoSpeaker \/ v \in custom_speakers

\* What a synthesis request for voice v arriving now finds: a key of
\* custom_speakers takes the zero-shot path and needs the engine's speaker, any
\* other id takes tts_sft and needs voice_mapping[v] and spk2info[speaker][speaker].
CanSynthesize(v) ==
    IF v \in custom_speakers
    THEN v \in engine_spk
    ELSE /\ voice_mapping[v] # NoSpeaker
         /\ spk2info[voice_mapping[v]] = "nested"

(* ---------------------------------------------------------- specifications *)
\* The handlers are served once the lifespan's initialize() has returned.
Serving == startup = "complete"

\* Request ids number the synthesis requests in the order they arrive.
Arrives(r) == Serving /\ (IF r = 1 THEN TRUE ELSE pc[r - 1] # "idle")

ConcurrentFormats == {"wav"}

SynthStep(r, fmts, lens, speeds) ==
    \/ \E v \in SynthVoices, f \in fmts, n \in lens, sp \in speeds :
          Arrives(r) /\ create_speech(r, v, f, n, sp)
    \/ \E v \in SynthVoices, f \in fmts, n \in lens, sp \in speeds :
          Arrives(r) /\ create_speech_stream(r, v, f, n, sp)
    \/ synthesize_stream(r)
    \/ AcquireLock(r)
    \/ Resolve(r)
    \/ Select(r)
    \/ Lookup(r)
    \/ GatewayEmit(r)
    \/ GatewayRaise(r)
    \/ GatewayEnd(r)
    \/ EncodeBatch(r)
    \/ EncodeChunk(r)
    \/ ConsumerNext(r)
    \/ ConsumerAbandon(r)
    \/ Finalize(r)

DeleteNames == CloneNames \cup {"v1"}       \* speaker_name values given to delete_voice

CloneStep ==
    \/ \E n \in CloneNames : Serving /\ clone_voice(n)
    \/ CloneEngine
    \/ CloneRegister
    \/ \E n \in DeleteNames : Serving /\ delete_voice(n)

CgStep(c) ==
    \/ \E id \in CloneIds, sp \in Speakers : Serving /\ cg_check(c, id, sp)
    \/ cg_write(c)
    \/ cg_config(c)
    \/ cg_rollback(c)
    \/ clone_voice_saved(c)

\* Synthesis requests, clone_voice and delete_voice running concurrently.
Next ==
    \/ initialize
    \/ \E r \in 1..NReq : SynthStep(r, ConcurrentFormats, PlainTexts, PlainSpeeds)
    \/ StartWorker
    \/ CloneStep

Spec == Init /\ [][Next]_vars

\* Synthesis requests alone, batch and streaming, competing for the pool, the
\* event loop and model_lock.
NextSynth ==
    \/ initialize
    \/ \E r \in 1..NReq : SynthStep(r, ConcurrentFormats, PlainTexts, PlainSpeeds)
    \/ StartWorker

SpecSynth == Init /\ [][NextSynth]_vars

\* Three synthesis requests competing for model_lock, with the threads that
\* block in acquire() recorded in the order they blocked.
NextLock ==
    \/ initialize
    \/ \E r \in Reqs : SynthStep(r, ConcurrentFormats, PlainTexts, PlainSpeeds)
    \/ \E r \in Reqs : AcquireBlocks(r)
    \/ StartWorker

SpecLock == Init /\ [][NextLock]_vars

\* synthesize / synthesize_stream called on the client before initialize() has
\* run, i.e. while self.model is None.
EarlyCall(r) ==
    /\ ~model
    /\ \E v \in SynthVoices :
          \/ \E n \in PlainTexts, sp \in PlainSpeeds : create_speech(r, v, "wav", n, sp)
          \/ \E n \in PlainTexts, sp \in PlainSpeeds : create_speech_stream(r, v, "wav", n, sp)

\* The client object used directly: calls before and after initialize().
NextClient ==
    \/ initialize
    \/ \E r \in 1..NReq : EarlyCall(r)
    \/ \E r \in 1..NReq : SynthStep(r, ConcurrentFormats, PlainTexts, PlainSpeeds)
    \/ StartWorker

SpecClient == Init /\ [][NextClient]_vars

\* One synthesis request in every format, with clone_voice and delete_voice.
NextOne ==
    \/ initialize
    \/ SynthStep(1, Formats, PlainTexts, PlainSpeeds)
    \/ CloneStep

SpecOne == Init /\ [][NextOne]_vars

\* The request boundary: one synthesis request with every text length, speed
\* and format, and DELETE /v1/voice calls.
NextBoundary ==
    \/ initialize
    \/ SynthStep(1, ResponseFormats, TextLens, Speeds)
    \/ \E n \in DeleteNames : Serving /\ delete_voice(n)

SpecBoundary == Init /\ [][NextBoundary]_vars

\* The durable voice store: clone_generate calls after startup.
NextStore ==
    \/ initialize
    \/ \E c \in CgCalls : CgStep(c)

SpecStore == Init /\ [][NextStore]_vars

(* ------------------------------------------------------------------ claims *)

\* C1: at every moment at most one synthesis request, batch or streaming, is
\* inside the engine-wide critical section, and it is the holder of
\* model_lock; a stream is inside from its acquire until its chunk sequence
\* ends (also while suspended at a yield), so the gateway calls of concurrent
\* requests never interleave.
C1_Serialized ==
    /\ \A r \in Reqs : pc[r] \in InsideLock => model_lock = r
    /\ \A r1, r2 \in Reqs : (pc[r1] \in InsideLock /\ pc[r2] \in InsideLock) => r1 = r2

\* A stream suspended between two chunks while another request waits for the lock.
C1_Witness ==
    \E r1, r2 \in Reqs :
        /\ r1 # r2
        /\ pc[r1] = "suspended" /\ segs[r1] >= 1
        /\ pc[r2] = "acquire"

\* C2: clone (the engine's zero-shot registration and the write to the voice
\* registry) and delete run under the same critical section as synthesis: while
\* a synthesis request holds the lock neither the registry nor the engine's
\* speaker table changes.
C2_CloneDeleteUnderLock ==
    [][model_lock # NoReq =>
         (custom_speakers' = custom_speakers /\ engine_spk' = engine_spk)]_vars

\* C3: no state is reachable in which a request blocked waiting for the
\* critical section keeps the current holder (a stream suspended between two
\* chunks, whose consumer keeps reading) from progressing.
C3_WaiterNeverBlocksHolder ==
    ~ \E a, b \in Reqs :
        /\ a # b
        /\ model_lock = a /\ pc[a] = "suspended"
        /\ pc[b] = "acquire" /\ loopOwner = b

\* C4: once the consumer of a stream has abandoned it, the critical section is
\* released: a request issued afterwards that waits for the lock is not
\* waiting for the abandoned stream.
C4_ReleasedOnAbandon ==
    \A a, b \in Reqs :
        (pc[a] = "abandoned" /\ pc[b] = "acquire" /\ loopOwner = b) => model_lock # a

\* C5: synthesis, encoding and waiting for the critical section never execute
\* on (or block) the event-loop thread, for batch and streaming requests alike.
C5_NothingOnEventLoop ==
    \A r \in Reqs : pc[r] \in InClosure => loopOwner # r

\* C6: a finished batch request with k >= 1 segments returns the encoding of
\* all k raw audio segments, concatenated in order.
C6_BatchReturnsAllSegments ==
    \A r \in Reqs :
        (req[r].kind = "batch" /\ pc[r] = "done") =>
            (Len(out[r]) = 1 /\ out[r][1].audio = AudioData(r))

\* C7: a streaming request yields one encoded chunk per raw audio segment the
\* engine emitted, each segment encoded on its own, in emission order, and
\* when the sequence has ended every emitted segment has been yielded.
C7_OneChunkPerSegment ==
    \A r \in Reqs :
        req[r].kind = "stream" =>
            /\ Len(out[r]) <= segs[r]
            /\ \A i \in 1..Len(out[r]) : out[r][i].audio = <<i>>
            /\ pc[r] \in {"suspended", "done"} => Len(out[r]) = segs[r]

\* A stream that ended after at least two chunks.
C7_Witness ==
    \E r \in Reqs : req[r].kind = "stream" /\ pc[r] = "done" /\ Len(out[r]) >= 2

\* C8: when the engine fails on segment j of a stream, exactly the chunks of
\* segments 1..j-1 have been yielded, the sequence has terminated with the
\* failure, and afterwards no chunk is added or retracted.
C8_FailureAfterYieldedChunks ==
    /\ [](\A r \in Reqs :
            (req[r].kind = "stream" /\ err[r] = "SynthesisFailure") =>
                /\ pc[r] = "failed"
                /\ Len(out[r]) = segs[r]
                /\ \A i \in 1..Len(out[r]) : out[r][i].audio = <<i>>)
    /\ [][\A r \in Reqs :
            pc[r] = "failed" => (pc'[r] = "failed" /\ out'[r] = out[r])]_vars

\* A stream that failed on its second segment, one chunk delivered.
C8_Witness ==
    \E r \in Reqs :
        /\ req[r].kind = "stream" /\ pc[r] = "failed"
        /\ err[r] = "SynthesisFailure" /\ Len(out[r]) = 1

\* C9: after a clone_generate call that failed in or after extraction, no
\* manifest entry and no sample audio exists for its voice id.
C9_RollbackLeavesNothing ==
    \A c \in CgCalls :
        (cg[c].pc = "done" /\ cg[c].status = 500) =>
            /\ manifest[FileName(cg[c].id)] = NoEntry
            /\ cg[c].id \notin files

\* C10: a clone_generate call for a voice id that already has a manifest entry
\* when it arrives is rejected with the duplicate-speaker status, the one
\* outcome of the handler that touches none of the stores.
C10_DuplicateRejected ==
    \A c \in CgCalls :
        (cg[c].pc = "done" /\ cg[c].before.manifest[FileName(cg[c].id)] # NoEntry) =>
            cg[c].status = 409

\* C11: a clone_generate call for a fresh voice id (no sample file and no
\* manifest entry when it arrives) ends with success, and then the manifest
\* entry, the sample and the bundle exist and the voice is registered and
\* resolvable by synthesis.
C11_FreshCloneSucceeds ==
    \A c \in CgCalls :
        (/\ cg[c].pc = "done"
         /\ cg[c].id \notin cg[c].before.files
         /\ cg[c].before.manifest[FileName(cg[c].id)] = NoEntry) =>
            /\ cg[c].status = 200
            /\ manifest[FileName(cg[c].id)] = Entry(cg[c].id, cg[c].speaker)
            /\ cg[c].id \in files
            /\ BundlePath(cg[c].id) \in bundles
            /\ voice_mapping[cg[c].id] = cg[c].speaker

\* C12: a delete_voice call on a registered voice, loaded from the manifest or
\* cloned at runtime, leaves that voice id in neither the in-memory registries
\* nor the manifest.
C12_DeleteRemovesEverywhere ==
    [][deleted' # deleted =>
         LET n == deleted'.voice
         IN  (n \in custom_speakers \/ voice_mapping[n] # NoSpeaker) =>
                 /\ n \notin custom_speakers'
                 /\ voice_mapping'[n] = NoSpeaker
                 /\ manifest'[FileName(n)] = NoEntry]_vars

\* C13: delete_voice on a voice id no registry knows returns False and changes
\* no registry and no store; it returns True only for a name it found and
\* removed, so a second delete of the same name returns False and changes nothing.
C13_DeleteUnknownIsFalse ==
    [][deleted' # deleted =>
         LET n == deleted'.voice
         IN  /\ (n \notin custom_speakers /\ voice_mapping[n] = NoSpeaker) =>
                   /\ deleted'.result = FALSE
                   /\ registryVars' = registryVars
                   /\ durableVars' = durableVars
             /\ deleted'.result = TRUE =>
                   /\ n \in custom_speakers
                   /\ custom_speakers' = custom_speakers \ {n}
             /\ deleted'.result = FALSE => custom_speakers' = custom_speakers]_vars

\* c1 was cloned, deleted (True) and deleted again (False).
C13_Witness ==
    /\ deleted = [voice |-> "c1", result |-> FALSE]
    /\ "c1" \in engine_spk
    /\ "c1" \notin custom_speakers
    /\ clonePc = "idle"

\* C14: once startup has loaded the voices, loading again from the stores as
\* they then are gives the same registries and the same in-memory profiles, and
\* performs no extraction.
C14_LoadIdempotent ==
    startup = "complete" =>
        /\ Reload.extractions = 0
        /\ Reload.vm = voice_mapping
        /\ Reload.s2i = spk2info

\* C15: the startup load performs one extraction and persists one bundle for
\* each manifest entry whose bundle is absent, and lists the voice under the
\* entry's id field with type "custom".
C15_MissRegistersCustomUnderId ==
    [][(startup = "pending" /\ startup' = "complete") =>
         LET missing == {i \in files : /\ manifest[FileName(i)] # NoEntry
                                       /\ manifest[FileName(i)].spk2info_path \notin bundles}
         IN  /\ LoadAll.extractions = Cardinality(missing)
             /\ bundles' \ bundles = {manifest[FileName(i)].spk2info_path : i \in missing}
             /\ \A i \in missing :
                   [id |-> manifest[FileName(i)].id, type |-> "custom"]
                       \in list_available_voices']_vars

\* C16: when one profile cannot be loaded at startup, startup still completes
\* and every sample that has a usable manifest entry is registered.
C16_OneBadProfileOnly ==
    startup # "pending" =>
        /\ startup = "complete"
        /\ \A i \in files :
              manifest[FileName(i)] # NoEntry => voice_mapping[i] # NoSpeaker

\* C17: after initialization every manifest entry whose bundle file exists has
\* its profile in memory, registered under the entry's voice id.
C17_EntryWithBundleIsRegistered ==
    startup = "complete" =>
        \A f \in FileUniverse :
            (manifest[f] # NoEntry /\ manifest[f].spk2info_path \in bundles) =>
                /\ voice_mapping[manifest[f].id] = manifest[f].speaker
                /\ spk2info[manifest[f].speaker] # "absent"

\* C18: saving a bundle and loading it back is a round trip: for every
\* registered voice the profile in memory equals the profile a load of its
\* persisted bundle gives, and it is in the shape tts_sft reads, whether it was
\* computed on a cache miss or loaded from the bundle.
C18_BundleRoundTrip ==
    startup = "complete" =>
        \A v \in StemUniverse :
            voice_mapping[v] # NoSpeaker =>
                /\ spk2info[voice_mapping[v]] = Reload.s2i[voice_mapping[v]]
                /\ spk2info[voice_mapping[v]] = "nested"

C20_ModelNotReady ==
    /\ [][\A r \in Reqs :
            (/\ ~model
             /\ \/ pc[r] = "idle" /\ pc'[r] \notin {"idle", "pending"}
                \/ pc[r] = "pending" /\ pc'[r] # "pending") =>
                /\ pc'[r] = "failed" /\ err'[r] = "ModelNotReady"
                /\ executor_queue' = executor_queue
                /\ BusyWorkers' = BusyWorkers
                /\ model_lock' = model_lock
                /\ loopOwner' = loopOwner
                /\ segs'[r] = 0 /\ out'[r] = <<>>
                /\ \A q \in Reqs \ {r} : pc'[q] = pc[q] /\ err'[q] = err[q]]_vars
    /\ [](\A r \in Reqs :
            err[r] = "ModelNotReady" =>
                (pc[r] = "failed" /\ segs[r] = 0 /\ out[r] = <<>> /\ model_lock # r))

\* One request failed because the model was not loaded; a later one was served.
C20_Witness ==
    \E r1, r2 \in Reqs :
        /\ err[r1] = "ModelNotReady" /\ pc[r1] = "failed"
        /\ pc[r2] = "done" /\ Len(out[r2]) >= 1

C22_BatchFailureReturnsNothing ==
    /\ \A r \in Reqs :
          (req[r].kind = "batch" /\ err[r] = "SynthesisFailure")
              => (pc[r] = "failed" /\ out[r] = <<>>)
    /\ [][\A r \in Reqs :
            (req[r].kind = "batch" /\ pc[r] = "gateway" /\ err'[r] = "SynthesisFailure")
                => (pc'[r] = "failed" /\ out'[r] = <<>> /\ model_lock' # r)]_vars

\* A batch request failed in the gateway after the engine had produced a
\* segment, and nothing was returned.
C22_Witness ==
    \E r \in Reqs :
        /\ req[r].kind = "batch"
        /\ err[r] = "SynthesisFailure"
        /\ pc[r] = "failed"
        /\ segs[r] >= 1
        /\ out[r] = <<>>

(* ------------------------------------------------------------------- C23 *)
\* C23: when the external encoder exits with a failure during mp3 encoding,
\* the encode step does not raise: it delivers the wav encoding of the same
\* audio and the request goes on as after a successful encoding.
C23_Mp3FallsBackToWav ==
    [][\A r \in Reqs :
          (pc[r] = "encode" /\ pc'[r] # "encode" /\ post'[r].encoder = "ffmpeg_failed")
              => /\ req[r].fmt = "mp3"
                 /\ pc'[r] = (IF req[r].kind = "batch" THEN "done" ELSE "suspended")
                 /\ err'[r] = err[r]
                 /\ Len(out'[r]) = Len(out[r]) + 1
                 /\ out'[r][Len(out'[r])] =
                        PostProcessed(audio_tensor(r), "wav", req[r].speed,
                                      post'[r].resample, "ok")]_vars

\* A batch mp3 request succeeded with wav audio after the encoder had failed.
C23_Witness ==
    \E r \in Reqs :
        /\ req[r].kind = "batch"
        /\ req[r].fmt = "mp3"
        /\ post[r].encoder = "ffmpeg_failed"
        /\ pc[r] = "done"
        /\ err[r] = "none"
        /\ Len(out[r]) = 1
        /\ out[r][1].enc = "wav"

(* ------------------------------------------------------------------- C24 *)
\* C24: on every exit path of an encode call, normal return, encoder failure or
\* an exception while writing or converting, no temporary file the call created
\* (the intermediate wav, the produced mp3) is still on disk afterwards.
C24_NoTempFileLeft == tmp_files = {}

(* ------------------------------------------------------------------- C25 *)
\* C25: speed adjustment never fails the request, and the audio that goes on
\* to the encoder is the input audio itself in two cases: speed 1.0, and
\* resampling that raised; otherwise it is the resampled audio.
C25_SpeedNeverFails ==
    [][\A r \in Reqs :
          (pc[r] = "encode" /\ pc'[r] # "encode") =>
              /\ pc'[r] = "failed" => post'[r].encoder = "raise"
              /\ (pc'[r] # "failed" /\ post'[r].resample \in {"skipped", "raise"})
                    => out'[r][Len(out'[r])].audio = audio_tensor(r)
              /\ (pc'[r] # "failed" /\ post'[r].resample = "ok")
                    => /\ req[r].speed # NormalSpeed
                       /\ out'[r][Len(out'[r])].audio =
                              [i \in DOMAIN audio_tensor(r) |->
                                  Resampled(audio_tensor(r)[i], req[r].speed)]
              /\ post'[r].resample = "skipped" <=> req[r].speed = NormalSpeed]_vars

\* A request at a speed other than 1.0 whose resampling raised finished with
\* the engine's audio unmodified.
C25_Witness ==
    \E r \in Reqs :
        /\ req[r].speed # NormalSpeed
        /\ post[r].resample = "raise"
        /\ pc[r] = "done"
        /\ err[r] = "none"
        /\ Len(out[r]) >= 1
        /\ out[r][1].audio = <<1>>

(* ------------------------------------------------------------------- C26 *)
\* C26: on a server whose model is loaded, a batch request for a registered
\* voice with format wav and speed 1.0, which the engine serves without
\* failing, is answered with status 200 and non-empty wav audio.
C26_BasicRequestSucceeds ==
    \A r \in Reqs :
        (/\ Serving
         /\ req[r].kind = "batch"
         /\ req[r].fmt = "wav"
         /\ req[r].speed = NormalSpeed
         /\ req[r].len <= max_text_length
         /\ Registered(req[r].voice)
         /\ pc[r] \in {"done", "failed"}
         /\ err[r] \notin {"SynthesisFailure", "RuntimeError"})
            => /\ speech_status(r) = 200
               /\ Len(out[r]) = 1
               /\ out[r][1].enc = "wav"
               /\ out[r][1].audio # <<>>

(* ------------------------------------------------------------------- C27 *)
\* C27: once the server serves, whatever loads, clones and deletes happened,
\* list-voices returns exactly the voice ids synthesis can resolve now, each
\* exactly once, tagged "custom" when cloned at run time and "preset" otherwise.
C27_ListingIsResolvable ==
    Serving =>
        LET listed == {e.id : e \in list_available_voices}
        IN  /\ listed = {v \in StemUniverse : CanSynthesize(v)}
            /\ \A v \in listed :
                  Cardinality({e \in list_available_voices : e.id = v}) = 1
            /\ \A e \in list_available_voices :
                  e.type = IF e.id \in custom_speakers THEN "custom" ELSE "preset"

(* ------------------------------------------------------------------- C28 *)
\* C28: only the access to the engine is serialized: voice lookup, speed
\* adjustment and encoding run outside the critical section, so a request that
\* is at one of those steps does not hold model_lock.
C28_OnlyGatewayUnderLock ==
    \A r \in Reqs :
        pc[r] \in {"resolve", "select", "lookup", "encode"} => model_lock # r

\* C28 amended: the critical section is the whole closure: voice lookup, text
\* preprocessing, engine access, speed adjustment and encoding all run with
\* model_lock held, and no request is at one of these steps while another one
\* is inside the engine.
C28_WholeClosureUnderLock ==
    /\ \A r \in Reqs :
          pc[r] \in {"resolve", "select", "lookup", "gateway", "encode"} => model_lock = r
    /\ \A r, q \in Reqs :
          (r # q /\ pc[q] = "gateway")
              => pc[r] \notin {"resolve", "select", "lookup", "encode"}

\* A request is encoding with the lock held while another one waits for the lock.
C28_Witness ==
    \E r, q \in Reqs :
        /\ r # q
        /\ pc[r] = "encode"
        /\ model_lock = r
        /\ pc[q] = "acquire"

(* ------------------------------------------------------------------- C29 *)
\* C29: a failure that carries a kind of its own reaches the request boundary
\* with that kind: a batch request rejected for its text length is answered
\* 400 and a delete of an unknown voice 404, never 500.
C29_FailureKindPreserved ==
    /\ \A r \in Reqs :
          (req[r].kind = "batch" /\ pc[r] = "failed" /\ Raised(err[r]) # 0)
              => speech_status(r) = Raised(err[r])
    /\ (deleted.voice # "none" /\ ~deleted.result)
          => delete_status = Raised("VoiceNotFound")

(* ------------------------------------------------------------------- C30 *)
\* C30: a synthesis takes the zero-shot path if and only if its voice id was in
\* the custom set when the voice was resolved (use_zero_shot), and the preset
\* path otherwise.
C30_PathFollowsResolution ==
    \A r \in Reqs :
        pc[r] \in {"lookup", "gateway", "encode", "suspended", "abandoned"}
            => (path[r] = "zero_shot" <=> use_zero_shot[r])

(* ------------------------------------------------------------------- C31 *)
\* C31: requests enter the critical section in the order in which they started
\* waiting for it: whoever takes model_lock while threads are blocked in
\* acquire() is the one that blocked first.
C31_EntersInWaitingOrder ==
    [][\A r \in Reqs :
          (model_lock # r /\ model_lock' = r)
              => (waiting = <<>> \/ Head(waiting) = r)]_vars

(* ------------------------------------------------------------------- C32 *)
\* C32: the content type declared on a synthesis response is the type of the
\* encoding its bytes really are in, for every requested format and also when
\* mp3 encoding fell back to wav.
C32_ContentTypeMatches ==
    \A r \in Reqs :
        \A i \in DOMAIN out[r] :
            content_type(req[r].fmt) = content_type(out[r][i].enc)

(* ------------------------------------------------------------------- C33 *)
\* C33: two concurrent clone-and-persist requests for the same voice id never
\* both pass the duplicate check: no two calls in flight past the check carry
\* the same id, so at most one of them writes the sample and the manifest entry.
C33_OneWriterPerVoiceId ==
    \A c, d \in CgCalls :
        (c # d /\ cg[c].id = cg[d].id)
            => ~ (/\ cg[c].pc \in {"write", "config", "clone"}
                  /\ cg[d].pc \in {"write", "config", "clone"})

====
